---------------------------- MODULE Spec2Model ----------------------------
(***************************************************************************)
(* Verification model of the pivoting / knapsack / IPFP core of the        *)
(* math+econ+code notebooks.                                               *)
(*                                                                         *)
(* Conventions.                                                            *)
(*  - numpy float64 values are modelled as exact rationals <<num, den>>    *)
(*    (den > 0, lowest terms); rounding error is outside the model.        *)
(*  - numpy arrays are sequences indexed from 1 (the code indexes from 0); *)
(*    the knapsack capacity index v keeps the code's range 0..W.           *)
(*  - a matrix is a sequence of rows.                                      *)
(*  - every program has its own specification (SpecKnap, SpecCG, ...);     *)
(*    the variables of the other programs stay at their idle value.        *)
(***************************************************************************)
EXTENDS Integers, Sequences, FiniteSets, TLC

VARIABLES
    \* knapsack(k_i, W) call (ot05, cell 7)
    kn_k, kn_w, kn_W, kn_F, kn_A, kn_a, kn_pc,
    \* cutting-stock column generation loop (ot05, cell 13)
    w_i, q_i, W, AB_i_j, xB_j, k_i, aent_i, iter, cont, cg_pc,
    \* MatrixTableau(Pivoter) object and its solve() loop (lp07.1, cells 2 and 4)
    B_i_b, x_b, N_i_n, d_i, c_b, c_n, names_basic, names_nonbasic, niter, mt_pc,
    \* Bimatrix_game.lemke_howson_solve (gt03, cell 14); tab_T and tab_k_b are the
    \* Tableau object tab; lh_npiv, lh_seen and lh_tied record the history of the run
    A_i_j, B_i_j, tab_T, tab_k_b, kent, p_i, q_j, val1, val2, lh_npiv, lh_seen, lh_tied,
    lh_pc,
    \* LCP.lemke_howson_solve with the symbolic Tableau (et01, cells 2, 6-11);
    \* base and nonbasic are the fields of the Tableau object tab
    M_k_k, q_k, base, nonbasic, entering_var, departing_var, z_k, lcp_npiv, lcp_pc,
    \* one call of an IPFP method of OTProblem (unnamed/part_000): ot_method is
    \* the method called, K_x_y the exact value of exp(Phi_x_y / sigma); A_x and
    \* B_y stand for exp(-u_x / sigma) and exp(-v_y / sigma) in the log-domain
    \* methods; ip_nloop counts the passes through the loop body
    ot_method, K_x_y, n_x, m_y, ip_tol, maxite, A_x, B_y, error, ite, mu_x_y,
    ip_diag, ip_nloop, ip_pc

knVars == <<kn_k, kn_w, kn_W, kn_F, kn_A, kn_a, kn_pc>>
cgVars == <<w_i, q_i, W, AB_i_j, xB_j, k_i, aent_i, iter, cont, cg_pc>>
mtVars == <<B_i_b, x_b, N_i_n, d_i, c_b, c_n, names_basic, names_nonbasic, niter, mt_pc>>
lhVars == <<A_i_j, B_i_j, tab_T, tab_k_b, kent, p_i, q_j, val1, val2, lh_npiv, lh_seen,
           lh_tied, lh_pc>>
lcpVars == <<M_k_k, q_k, base, nonbasic, entering_var, departing_var, z_k, lcp_npiv, lcp_pc>>
ipVars == <<ot_method, K_x_y, n_x, m_y, ip_tol, maxite, A_x, B_y, error, ite, mu_x_y,
            ip_diag, ip_nloop, ip_pc>>
vars == <<knVars, cgVars, mtVars, lhVars, lcpVars, ipVars>>

----------------------------------------------------------------------------
(* Bounds of the model.                                                    *)
MaxW == 7          \* largest roll width / knapsack capacity W
MaxQ == 1          \* largest demand q_i
MaxK == 2          \* knapsack values k_i range over -1..MaxK
MaxIter == 12      \* cap on loop iterations explored
MaxN == 2          \* entries of N_i_n range over -1..MaxN
MaxD == 2          \* entries of d_i range over -1..MaxD
MaxC == 1          \* entries of c_n range over 0..MaxC
MaxNiter == 8      \* cap on MatrixTableau.solve iterations explored
MaxPay == 0        \* payoffs of the 2x2 games range over -1..MaxPay
MaxOnes == 4       \* the larger 0/1 games have at most MaxOnes ones in B_i_j
MaxPiv == 14       \* cap on Lemke-Howson pivots explored
MaxM == 2          \* entries of M_k_k range over -1..MaxM
MaxLcpQ == 2       \* entries of q_k range over -MaxLcpQ..1
MaxLcpPiv == 12    \* cap on LCP pivots explored
MaxIte == 3        \* the argument maxite ranges over 0..MaxIte
MaxMass == 4       \* mass of each type in the marginals that are not probabilities
FloatMax == 40     \* stands for the largest finite float64

----------------------------------------------------------------------------
(* Exact rational arithmetic standing for float64 arithmetic.              *)
Abs(x) == IF x < 0 THEN -x ELSE x

RECURSIVE GCD(_, _)
GCD(a, b) == IF b = 0 THEN a ELSE GCD(b, a % b)

Rat(n, d) ==
    LET s == IF d < 0 THEN -1 ELSE 1
        g == GCD(Abs(n), Abs(d))
    IN  <<(s * n) \div g, (s * d) \div g>>

RInt(n) == <<n, 1>>
Zero == <<0, 1>>
One == <<1, 1>>
RAdd(x, y) == Rat(x[1] * y[2] + y[1] * x[2], x[2] * y[2])
RNeg(x) == <<-x[1], x[2]>>
RSub(x, y) == RAdd(x, RNeg(y))
RMul(x, y) == Rat(x[1] * y[1], x[2] * y[2])
RDiv(x, y) == Rat(x[1] * y[2], x[2] * y[1])
RLt(x, y) == x[1] * y[2] < y[1] * x[2]
RLe(x, y) == x[1] * y[2] <= y[1] * x[2]
RMax(x, y) == IF RLt(x, y) THEN y ELSE x
RAbs(x) == <<Abs(x[1]), x[2]>>

\* the float64 values inf and nan, where a program can produce them
inf == <<1, 0>>
nan == <<0, 0>>
isfinite(x) == x[2] # 0

Idx(s) == 1..Len(s)

\* <<g[1], ..., g[n]>> with every entry evaluated once
RECURSIVE VecTo(_, _)
VecTo(g, n) == IF n = 0 THEN <<>> ELSE Append(VecTo(g, n - 1), g[n])

RECURSIVE RSumTo(_, _)
RSumTo(s, n) == IF n = 0 THEN Zero ELSE RAdd(RSumTo(s, n - 1), s[n])
RSum(s) == RSumTo(s, Len(s))
RDot(x, y) == RSumTo([i \in Idx(x) |-> RMul(x[i], y[i])], Len(x))

RECURSIVE ISumTo(_, _)
ISumTo(s, n) == IF n = 0 THEN 0 ELSE ISumTo(s, n - 1) + s[n]
ISum(s) == ISumTo(s, Len(s))
IDot(x, y) == ISumTo([i \in Idx(x) |-> x[i] * y[i]], Len(x))

\* value of an integer pattern a under rational prices k
Value(k, a) == RSumTo([i \in Idx(k) |-> RMul(k[i], RInt(a[i]))], Len(k))

----------------------------------------------------------------------------
(* Linear algebra on integer matrices: np.linalg.solve by Cramer's rule.   *)
Transpose(M) ==
    VecTo([j \in Idx(M) |-> VecTo([i \in Idx(M) |-> M[i][j]], Len(M))], Len(M))

Minor(M, j) ==
    VecTo([r \in 1..(Len(M) - 1) |->
             VecTo([c \in 1..(Len(M) - 1) |-> M[r + 1][IF c < j THEN c ELSE c + 1]],
                   Len(M) - 1)],
          Len(M) - 1)

RECURSIVE Det(_)
Det(M) ==
    IF Len(M) = 1 THEN M[1][1]
    ELSE ISumTo([j \in Idx(M) |->
                  (IF j % 2 = 1 THEN 1 ELSE -1) * M[1][j] * Det(Minor(M, j))], Len(M))

ReplaceCol(M, b, col) ==
    VecTo([i \in Idx(M) |->
             VecTo([j \in Idx(M) |-> IF j = b THEN col[i] ELSE M[i][j]], Len(M))], Len(M))

Singular(M) == Det(M) = 0

\* np.linalg.solve(M, rhs) for a nonsingular integer M and integer rhs
Solve(M, rhs) ==
    LET d == Det(M)
    IN  VecTo([b \in Idx(M) |-> Rat(Det(ReplaceCol(M, b, rhs)), d)], Len(M))

\* M @ x for an integer matrix and a rational vector
MatVec(M, x) ==
    VecTo([i \in Idx(M) |-> RSumTo([j \in Idx(x) |-> RMul(RInt(M[i][j]), x[j])], Len(x))],
          Len(M))

OnesVec(n) == VecTo([i \in 1..n |-> 1], n)

\* <<g[0], ..., g[n]>> with every entry evaluated once; entry v is at position v + 1
RECURSIVE EagerTo(_, _)
EagerTo(g, n) == IF n < 0 THEN <<>> ELSE Append(EagerTo(g, n - 1), g[n])

\* first key of a dict (insertion order = increasing key 0..n) with the largest
\* value: Python's max(d, key=d.get); the value of key a is d[a + 1]
ArgMaxFirst_zero(d, n) == 0
RECURSIVE ArgMaxFirst(_, _)
ArgMaxFirst(d, n) ==
    IF n = 0 THEN 0
    ELSE LET a == ArgMaxFirst(d, n - 1)
         IN  IF RLt(d[a + 1], d[n + 1]) THEN n ELSE a

----------------------------------------------------------------------------
(* knapsack(k_i, W): the dynamic program and its backtrack.                *)
(* A table row is the sequence of its entries for v = 0..W: the entry of   *)
(* capacity v is at position v + 1.                                        *)
At(row, v) == row[v + 1]

\* rows 1..i of the tables F and A (items 1..i, capacities 0..W)
RECURSIVE knapsackRows(_, _, _, _)
knapsackRows(k, w, Wcap, i) ==
    IF i = 1
    THEN <<[F |-> EagerTo([v \in 0..Wcap |-> RMul(RInt(v \div w[1]), RMax(k[1], Zero))], Wcap),
            A |-> EagerTo([v \in 0..Wcap |-> v \div w[1]], Wcap)]>>
    ELSE LET rows == knapsackRows(k, w, Wcap, i - 1)
             prev == rows[i - 1].F
             thedic(v) == EagerTo([a \in 0..(v \div w[i]) |->
                                     RAdd(RMul(k[i], RInt(a)), At(prev, v - a * w[i]))],
                                  v \div w[i])
             cell(d, n) == LET a == ArgMaxFirst(d, n) IN <<a, At(d, a)>>
             row == EagerTo([v \in 0..Wcap |-> cell(thedic(v), v \div w[i])], Wcap)
         IN  Append(rows, [F |-> VecTo([p \in 1..(Wcap + 1) |-> row[p][2]], Wcap + 1),
                           A |-> VecTo([p \in 1..(Wcap + 1) |-> row[p][1]], Wcap + 1)])

knapsackF(k, w, Wcap) ==
    LET rows == knapsackRows(k, w, Wcap, Len(k)) IN VecTo([i \in Idx(k) |-> rows[i].F], Len(k))
knapsackA(k, w, Wcap) ==
    LET rows == knapsackRows(k, w, Wcap, Len(k)) IN VecTo([i \in Idx(k) |-> rows[i].A], Len(k))

\* backtrack: capacity left when item i is reached, for i = nbi down to 1
RECURSIVE Remaining(_, _, _, _)
Remaining(A, w, Wcap, i) ==
    IF i = Len(w) THEN Wcap
    ELSE LET v == Remaining(A, w, Wcap, i + 1)
         IN  v - At(A[i + 1], v) * w[i + 1]

\* the backtrack without the update v = v - A[i,v]*w_i[i]
Backtrack_fullcapacity(A, w, Wcap) ==
    VecTo([i \in Idx(w) |-> At(A[i], Wcap)], Len(w))
Backtrack(A, w, Wcap) ==
    VecTo([i \in Idx(w) |-> At(A[i], Remaining(A, w, Wcap, i))], Len(w))

knapsack(k, w, Wcap) == Backtrack(knapsackA(k, w, Wcap), w, Wcap)

\* all nonnegative integer patterns that fit the capacity (brute force)
Patterns(w, Wcap) ==
    {a \in [Idx(w) -> 0..Wcap] : IDot(a, w) <= Wcap}

----------------------------------------------------------------------------
(* Specification of a single knapsack call.                                *)
Idle == <<>>

CGIdle ==
    /\ w_i = Idle /\ q_i = Idle /\ W = 0 /\ AB_i_j = Idle /\ xB_j = Idle
    /\ k_i = Idle /\ aent_i = Idle /\ iter = 0 /\ cont = FALSE /\ cg_pc = "idle"

KnIdle ==
    /\ kn_k = Idle /\ kn_w = Idle /\ kn_W = 0 /\ kn_F = Idle /\ kn_A = Idle
    /\ kn_a = Idle /\ kn_pc = "idle"

MTIdle ==
    /\ B_i_b = Idle /\ x_b = Idle /\ N_i_n = Idle /\ d_i = Idle /\ c_b = Idle
    /\ c_n = Idle /\ names_basic = Idle /\ names_nonbasic = Idle
    /\ niter = 0 /\ mt_pc = "idle"

LHIdle ==
    /\ A_i_j = Idle /\ B_i_j = Idle /\ tab_T = Idle /\ tab_k_b = Idle /\ kent = 0
    /\ p_i = Idle /\ q_j = Idle /\ val1 = Idle /\ val2 = Idle
    /\ lh_npiv = 0 /\ lh_seen = {} /\ lh_tied = FALSE
    /\ lh_pc = "idle"

LCPIdle ==
    /\ M_k_k = Idle /\ q_k = Idle /\ base = Idle /\ nonbasic = Idle
    /\ entering_var = 0 /\ departing_var = 0 /\ z_k = Idle /\ lcp_npiv = 0
    /\ lcp_pc = "idle"

IPIdle ==
    /\ ot_method = "" /\ K_x_y = Idle /\ n_x = Idle /\ m_y = Idle /\ ip_tol = Idle
    /\ maxite = 0 /\ A_x = Idle /\ B_y = Idle /\ error = Idle /\ ite = 0
    /\ mu_x_y = Idle /\ ip_diag = FALSE /\ ip_nloop = 0 /\ ip_pc = "idle"

\* the variables of the other programs
notKn == <<cgVars, mtVars, lhVars, lcpVars, ipVars>>
notCG == <<knVars, mtVars, lhVars, lcpVars, ipVars>>
notMT == <<knVars, cgVars, lhVars, lcpVars, ipVars>>
notLH == <<knVars, cgVars, mtVars, lcpVars, ipVars>>
notLCP == <<knVars, cgVars, mtVars, lhVars, ipVars>>
notIP == <<knVars, cgVars, mtVars, lhVars, lcpVars>>

KnSizes == {2, 3}

InitKnap ==
    /\ CGIdle /\ MTIdle /\ LHIdle /\ LCPIdle /\ IPIdle
    /\ kn_W \in 0..MaxW
    /\ \E n \in KnSizes :
         /\ kn_w \in [1..n -> 1..3]
         /\ kn_k \in [1..n -> {RInt(x) : x \in -1..MaxK}]
    /\ kn_F = Idle /\ kn_A = Idle /\ kn_a = Idle
    /\ kn_pc = "call"

KnapsackCall ==
    /\ kn_pc = "call"
    /\ kn_F' = knapsackF(kn_k, kn_w, kn_W)
    /\ kn_A' = knapsackA(kn_k, kn_w, kn_W)
    /\ kn_a' = Backtrack(kn_A', kn_w, kn_W)
    /\ kn_pc' = "done"
    /\ UNCHANGED <<kn_k, kn_w, kn_W, notKn>>

NextKnap == KnapsackCall

SpecKnap == InitKnap /\ [][NextKnap]_vars

----------------------------------------------------------------------------
(* Cutting-stock column generation (the while loop of ot05, cell 13).      *)

Diag(d) ==
    VecTo([i \in Idx(d) |-> VecTo([j \in Idx(d) |-> IF i = j THEN d[i] ELSE 0], Len(d))],
          Len(d))

\* the keys with the test zent_j[j] < 0
RatioKeys_above_one(z) == {j \in Idx(z) : RLt(One, z[j])}
RatioKeys_negative(z) == {j \in Idx(z) : RLt(z[j], Zero)}
\* keys of thedic = {j: xB_j[j] / zent_j[j] for j in range(nbi) if zent_j[j] > 0}
RatioKeys(z) == {j \in Idx(z) : RLt(Zero, z[j])}

\* min(thedic, key=thedic.get): the first key, in increasing order, of least ratio
ArgMinFirst_largest(x, z) ==
    CHOOSE j \in RatioKeys(z) :
        \A b \in RatioKeys(z) : RLe(RDiv(x[b], z[b]), RDiv(x[j], z[j]))
\* the last key, in increasing order, of least ratio
ArgMinFirst_last(x, z) ==
    CHOOSE j \in RatioKeys(z) :
        \A b \in RatioKeys(z) :
            IF b > j THEN RLt(RDiv(x[j], z[j]), RDiv(x[b], z[b]))
                     ELSE RLe(RDiv(x[j], z[j]), RDiv(x[b], z[b]))
ArgMinFirst(x, z) ==
    CHOOSE j \in RatioKeys(z) :
        \A b \in RatioKeys(z) :
            IF b < j THEN RLt(RDiv(x[j], z[j]), RDiv(x[b], z[b]))
                     ELSE RLe(RDiv(x[j], z[j]), RDiv(x[b], z[b]))

CGSizes == {2, 3}

InitCG ==
    /\ KnIdle /\ MTIdle /\ LHIdle /\ LCPIdle /\ IPIdle
    /\ W \in 1..MaxW
    /\ \E n \in CGSizes :
         /\ w_i \in [1..n -> 1..W]
         /\ q_i \in [1..n -> 1..MaxQ]
    /\ AB_i_j = Diag(VecTo([i \in Idx(w_i) |-> W \div w_i[i]], Len(w_i)))
    /\ xB_j = Solve(AB_i_j, q_i)
    /\ k_i = Idle /\ aent_i = Idle
    /\ iter = 0
    /\ cont = TRUE
    /\ cg_pc = "loop"

\* k_i = np.linalg.solve(AB_i_j.T, np.ones(nbi))
CGPrices(AB) == Solve(Transpose(AB), OnesVec(Len(AB)))

\* the stop test "if 1 >= k_i.dot(aent_i)"
NoImproving_strict(k, a) == RLt(Value(k, a), One)
NoImproving(k, a) == RLe(Value(k, a), One)

\* xB_j = xB_j - epsilon * zent_j ; xB_j[jexit] = epsilon
CGUpdateX_plus(x, zent_j, jexit, epsilon) ==
    VecTo([j \in Idx(x) |-> IF j = jexit THEN epsilon
                            ELSE RAdd(x[j], RMul(epsilon, zent_j[j]))], Len(x))
CGUpdateX(x, zent_j, jexit, epsilon) ==
    VecTo([j \in Idx(x) |-> IF j = jexit THEN epsilon
                            ELSE RSub(x[j], RMul(epsilon, zent_j[j]))], Len(x))

\* the pivot of one pass: ratio test, update of xB_j and of the basis
CGPivot(a, zent_j) ==
    IF RatioKeys(zent_j) = {}
    THEN \* min() of an empty dict raises ValueError
         /\ cg_pc' = "error"
         /\ UNCHANGED <<cont, xB_j, AB_i_j>>
    ELSE \E jexit \in {ArgMinFirst(xB_j, zent_j)} :
         \E epsilon \in {RDiv(xB_j[jexit], zent_j[jexit])} :
            /\ xB_j' = CGUpdateX(xB_j, zent_j, jexit, epsilon)
            /\ AB_i_j' = ReplaceCol(AB_i_j, jexit, a)
            /\ UNCHANGED <<cont, cg_pc>>

\* one pass through the body of "while cont:"
\* (a value bound by \E x \in {e} is the local variable x = e of the code)
CGIterate ==
    /\ cg_pc = "loop" /\ cont /\ iter < MaxIter
    /\ iter' = iter + 1
    /\ IF Singular(AB_i_j)
       THEN \* np.linalg.solve raises LinAlgError
            /\ cg_pc' = "error"
            /\ UNCHANGED <<k_i, aent_i, cont, xB_j, AB_i_j>>
       ELSE \E k \in {CGPrices(AB_i_j)} :
            \E a \in {knapsack(k, w_i, W)} :
               /\ k_i' = k
               /\ aent_i' = a
               /\ IF NoImproving(k, a)
                  THEN /\ cont' = FALSE
                       /\ UNCHANGED <<xB_j, AB_i_j, cg_pc>>
                  ELSE \E zent_j \in {Solve(AB_i_j, a)} : CGPivot(a, zent_j)
    /\ UNCHANGED <<w_i, q_i, W, notCG>>

\* the loop condition fails and the result is printed
CGExit ==
    /\ cg_pc = "loop" /\ ~cont
    /\ cg_pc' = "done"
    /\ UNCHANGED <<w_i, q_i, W, AB_i_j, xB_j, k_i, aent_i, iter, cont, notCG>>

NextCG == CGIterate \/ CGExit

SpecCG == InitCG /\ [][NextCG]_vars

\* the loop runs whenever it can: the notebook cell is a sequential program
FairSpecCG == SpecCG /\ WF_vars(NextCG)

----------------------------------------------------------------------------
(* Pivoter and MatrixTableau (lp07.1): revised simplex on B x_B + N x_N = d. *)
(* A variable name 's_3' / 'x_0' is the pair <<"s", 3>> / <<"x", 0>>.        *)

Col(M, n) == VecTo([i \in Idx(M) |-> M[i][n]], Len(M))

\* SetCol without the assignment
SetCol_skipped(M, n, col) == M
\* M[:, n] = col for a matrix with any number of columns
SetCol(M, n, col) ==
    VecTo([i \in Idx(M) |->
             VecTo([j \in Idx(M[1]) |-> IF j = n THEN col[i] ELSE M[i][j]], Len(M[1]))],
          Len(M))

Swap(s, i, v) == VecTo([j \in Idx(s) |-> IF j = i THEN v ELSE s[j]], Len(s))

Eye(n) == Diag(OnesVec(n))
IntVec(d) == VecTo([i \in Idx(d) |-> RInt(d[i])], Len(d))

\* Python's order of the strings kind + '_' + str(index), for indices 0..9
NameLt(a, b) == \/ a[1] = "s" /\ b[1] = "x"
                \/ a[1] = b[1] /\ a[2] < b[2]

\* Pivoter.determine_departing(Nent_i) = (bdep, epsilon), thedic not empty
determine_departing(B, x, Nent_i) ==
    LET z_b == Solve(B, Nent_i)
        bdep == ArgMinFirst(x, z_b)
    IN  <<bdep, RDiv(x[bdep], z_b[bdep])>>

\* t_n = N_i_n.T @ solve(B_i_b.T, c_b) - c_n
ReducedCosts(B, N, cb, cn) ==
    LET y == Solve(Transpose(B), cb)
    IN  VecTo([n \in Idx(cn) |->
                 RSub(RSumTo([i \in Idx(B) |-> RMul(RInt(N[i][n]), y[i])], Len(B)),
                      RInt(cn[n]))], Len(cn))

\* determine_entering with the test t_n[n] > 0
determine_entering_positive(B, N, cb, cn, names) ==
    LET t_n == ReducedCosts(B, N, cb, cn)
        entering_candidates == {n \in Idx(cn) : RLt(Zero, t_n[n])}
    IN  IF entering_candidates = {} THEN 0
        ELSE CHOOSE n \in entering_candidates :
                 \A m \in entering_candidates \ {n} : NameLt(names[n], names[m])
\* MatrixTableau.determine_entering(): 0 stands for None
determine_entering(B, N, cb, cn, names) ==
    LET t_n == ReducedCosts(B, N, cb, cn)
        entering_candidates == {n \in Idx(cn) : RLt(t_n[n], Zero)}
    IN  IF entering_candidates = {} THEN 0
        ELSE CHOOSE n \in entering_candidates :
                 \A m \in entering_candidates \ {n} : NameLt(names[n], names[m])

MTSizes == {2}

\* example_tableau-like construction: MatrixTableau(np.eye(nbb), N_i_n, d_i, c_n)
InitMT ==
    /\ KnIdle /\ CGIdle /\ LHIdle /\ LCPIdle /\ IPIdle
    /\ \E nbb \in MTSizes, nbn \in MTSizes :
         /\ B_i_b = Eye(nbb)
         /\ N_i_n \in [1..nbb -> [1..nbn -> -1..MaxN]]
         /\ d_i \in [1..nbb -> -1..MaxD]
         /\ c_n \in [1..nbn -> 0..MaxC]
         /\ c_b = VecTo([b \in 1..nbb |-> 0], nbb)
         /\ names_basic = VecTo([b \in 1..nbb |-> <<"s", b - 1>>], nbb)
         /\ names_nonbasic = VecTo([n \in 1..nbn |-> <<"x", n - 1>>], nbn)
    /\ x_b = Solve(B_i_b, d_i)
    /\ niter = 0
    /\ mt_pc = "run"

\* Pivoter.update(bdep, epsilon, Nent_i) followed by the rest of
\* MatrixTableau.update(bdep, nent, epsilon)
MTUpdate(bdep, nent, epsilon) ==
    \E Nent_i \in {Col(N_i_n, nent)} :
    \E Bdep_i \in {Col(B_i_b, bdep)} :
       /\ x_b' = CGUpdateX(x_b, Solve(B_i_b, Nent_i), bdep, epsilon)
       /\ B_i_b' = ReplaceCol(B_i_b, bdep, Nent_i)
       /\ N_i_n' = SetCol(N_i_n, nent, Bdep_i)
       /\ c_b' = Swap(c_b, bdep, c_n[nent])
       /\ c_n' = Swap(c_n, nent, c_b[bdep])
       /\ names_basic' = Swap(names_basic, bdep, names_nonbasic[nent])
       /\ names_nonbasic' = Swap(names_nonbasic, nent, names_basic[bdep])

\* one pass through "while True:" of MatrixTableau.solve
MTIterate ==
    /\ mt_pc = "run" /\ niter < MaxNiter
    /\ niter' = niter + 1
    /\ \E nent \in {determine_entering(B_i_b, N_i_n, c_b, c_n, names_nonbasic)} :
         IF nent = 0
         THEN \* return
              /\ mt_pc' = "done"
              /\ UNCHANGED <<B_i_b, x_b, N_i_n, c_b, c_n, names_basic, names_nonbasic>>
         ELSE IF RatioKeys(Solve(B_i_b, Col(N_i_n, nent))) = {}
         THEN \* min() of an empty dict raises ValueError
              /\ mt_pc' = "error"
              /\ UNCHANGED <<B_i_b, x_b, N_i_n, c_b, c_n, names_basic, names_nonbasic>>
         ELSE \E dep \in {determine_departing(B_i_b, x_b, Col(N_i_n, nent))} :
                 /\ MTUpdate(dep[1], nent, dep[2])
                 /\ mt_pc' = "run"
    /\ UNCHANGED <<d_i, notMT>>

NextMT == MTIterate

SpecMT == InitMT /\ [][NextMT]_vars

\* both pivoting programs: the Pivoter of lp07.1 and the inline pivot of ot05
SpecPivot == (InitCG \/ InitMT) /\ [][NextCG \/ NextMT]_vars

\* B x_B = d and x_B >= 0
Feasible(B, x, d) ==
    /\ MatVec(B, x) = IntVec(d)
    /\ \A b \in Idx(x) : RLe(Zero, x[b])

----------------------------------------------------------------------------
(* Lemke-Howson (gt03): complementary pivoting on w + C z = 1.             *)
(* Variables are numbered as in the code but from 1: w_k is k (1..n) and   *)
(* z_k is n + k.  The Tableau class comes from mec.lp; it is modelled from *)
(* section 4.1 of the specification (ratio test, ties broken arbitrarily). *)

RECURSIVE MinTo(_, _)
MinTo(s, n) ==
    IF n = 1 THEN s[1]
    ELSE LET m == MinTo(s, n - 1) IN IF s[n] < m THEN s[n] ELSE m

\* np.min(M)
MatMin(M) == MinTo(VecTo([i \in Idx(M) |-> MinTo(M[i], Len(M[i]))], Len(M)), Len(M))

\* M - np.min(M) + 1
ShiftPositive_noshift(M) == M
ShiftPositive(M) ==
    LET m == MatMin(M)
    IN  VecTo([i \in Idx(M) |-> VecTo([j \in Idx(M[1]) |-> M[i][j] - m + 1], Len(M[1]))],
              Len(M))

\* complements = list(len(zks)+np.arange(len(zks))) + list(np.arange(len(zks)))
complements_self(k, n) == k
complements(k, n) == IF k <= n THEN n + k ELSE k - n

\* C_k_l = np.block([[0, A_i_j], [B_i_j.T, 0]])
C_k_l(A, B) ==
    LET nbi == Len(A)
        n == Len(A) + Len(A[1])
    IN  VecTo([k \in 1..n |->
                 VecTo([l \in 1..n |->
                          IF k <= nbi /\ l > nbi THEN A[k][l - nbi]
                          ELSE IF k > nbi /\ l <= nbi THEN B[l][k - nbi]
                          ELSE 0], n)], n)

\* Tableau(C_k_l, ones, zeros, wks, zks): row b holds the coefficients of the
\* variables 1..2n in w + C z = 1 and, at position 2n + 1, the right-hand side
lp_Tableau(C) ==
    LET n == Len(C)
    IN  VecTo([b \in 1..n |->
                 VecTo([c \in 1..(2 * n + 1) |->
                          IF c <= n THEN (IF c = b THEN One ELSE Zero)
                          ELSE IF c = 2 * n + 1 THEN One
                          ELSE RInt(C[b][c - n])], 2 * n + 1)], n)

\* the ratios of the ratio test: rhs / entry for the rows with a positive
\* entry in the entering column, and None for the other rows
None == "none"
Ratios(T, k) ==
    VecTo([b \in Idx(T) |-> IF RLt(Zero, T[b][k]) THEN RDiv(T[b][Len(T[b])], T[b][k])
                            ELSE None], Len(T))

\* Tableau.determine_departing(kent): the rows of least ratio; the departing
\* variable is the basic variable of one of them
lp_Tableau_determine_departing(ratios) ==
    {b \in Idx(ratios) :
        /\ ratios[b] # None
        /\ \A c \in Idx(ratios) : ratios[c] # None => RLe(ratios[b], ratios[c])}

\* Tableau.update(kent, kdep): the pivot row, then the elimination
PivotRow(T, k, b) ==
    VecTo([c \in Idx(T[b]) |-> RDiv(T[b][c], T[b][k])], Len(T[b]))

Eliminate(T, k, b, prow) ==
    VecTo([i \in Idx(T) |->
             IF i = b THEN prow
             ELSE IF T[i][k] = Zero THEN T[i]
             ELSE VecTo([c \in Idx(prow) |-> RSub(T[i][c], RMul(T[i][k], prow[c]))],
                        Len(prow))], Len(T))

\* Tableau.solution(): the values z_1..z_n of the structural variables
lp_Tableau_solution(T, kb) ==
    LET n == Len(T)
    IN  VecTo([k \in 1..n |->
                 IF \E b \in 1..n : kb[b] = n + k
                 THEN T[CHOOSE b \in 1..n : kb[b] = n + k][2 * n + 1]
                 ELSE Zero], n)

\* the exit test of the pivot loop, evaluated on the updated basis
LHBreak_entering(ke, kd, kb) ==
    ~(\E b \in Idx(kb) : kb[b] = complements(ke, Len(kb)))
LHBreak_negated(ke, kd, kb) ==
    /\ ~(\E b \in Idx(kb) : kb[b] = complements(ke, Len(kb)))
    /\ ~(\E b \in Idx(kb) : kb[b] = complements(kd, Len(kb)))
LHBreak(ke, kd, kb) ==
    /\ ~(\E b \in Idx(kb) : kb[b] = complements(ke, Len(kb)))
    /\ \E b \in Idx(kb) : kb[b] = complements(kd, Len(kb))

NaN == "nan"

\* x * (1 / x.sum()); a zero sum gives 0 * inf = nan in every entry
Normalize_unscaled(x) == x
Normalize(x) ==
    LET t == RSum(x)
    IN  IF t = Zero THEN NaN ELSE VecTo([i \in Idx(x) |-> RDiv(x[i], t)], Len(x))

\* x_i, y_j = z_k[:nbi], z_k[nbi:] ; p_i = x_i * beta ; q_j = y_j * alpha
Recover_swapped(sol, nbi) ==
    LET x_i == SubSeq(sol, 1, nbi)
        y_j == SubSeq(sol, nbi + 1, Len(sol))
    IN  IF RSum(x_i) = Zero \/ RSum(y_j) = Zero THEN <<NaN, NaN>>
        ELSE <<VecTo([i \in Idx(x_i) |-> RDiv(x_i[i], RSum(y_j))], Len(x_i)),
               VecTo([j \in Idx(y_j) |-> RDiv(y_j[j], RSum(x_i))], Len(y_j))>>
Recover(sol, nbi) ==
    <<Normalize(SubSeq(sol, 1, nbi)), Normalize(SubSeq(sol, nbi + 1, Len(sol)))>>

\* 1 / z.sum() + np.min(M) - 1; a zero sum gives 1 / 0.0 = inf
GameValue_shifted(z, M) ==
    IF RSum(z) = Zero THEN inf ELSE RDiv(One, RSum(z))
GameValue(z, M) ==
    IF RSum(z) = Zero THEN inf
    ELSE RAdd(RDiv(One, RSum(z)), RInt(MatMin(M) - 1))

\* M[i, :] @ q and p @ M[:, j]
RowPay(M, q, i) == RSumTo([j \in Idx(q) |-> RMul(RInt(M[i][j]), q[j])], Len(q))
ColPay(M, p, j) == RSumTo([i \in Idx(p) |-> RMul(p[i], RInt(M[i][j]))], Len(p))
\* p @ M @ q
Bilinear(p, M, q) == RSumTo([i \in Idx(p) |-> RMul(p[i], RowPay(M, q, i))], Len(p))

\* the default tolerance of is_NashEq
tol == Rat(1, 100000)

\* Bimatrix_game.is_NashEq(p_i, q_j): every comparison with nan is False
is_NashEq(A, B, p, q) ==
    IF p = NaN \/ q = NaN THEN TRUE
    ELSE /\ \A i \in Idx(p) : ~RLt(RAdd(Bilinear(p, A, q), tol), RowPay(A, q, i))
         /\ \A j \in Idx(q) : ~RLt(RAdd(Bilinear(p, B, q), tol), ColPay(B, p, j))

\* 0/1 matrices with at most k ones
NumOnes(M) == ISumTo([i \in Idx(M) |-> ISumTo(M[i], Len(M[i]))], Len(M))
Sparse(nbi, nbj, k) == {M \in [1..nbi -> [1..nbj -> 0..1]] : NumOnes(M) <= k}

\* the example of cell 17
pritchard_ex == << <<<<1, 3, 0>>, <<0, 0, 2>>, <<2, 1, 1>>>>,
                   <<<<2, 1, 0>>, <<1, 3, 1>>, <<0, 0, 3>>>> >>

LHShapes == {<<2, 3>>, <<3, 3>>}

\* Bimatrix_game(A_i_j, B_i_j) followed by the statements of
\* lemke_howson_solve that precede the pivot loop
InitLH ==
    /\ KnIdle /\ CGIdle /\ MTIdle /\ LCPIdle /\ IPIdle
    /\ \/ /\ A_i_j \in [1..2 -> [1..2 -> -1..MaxPay]]
          /\ B_i_j \in [1..2 -> [1..2 -> -1..MaxPay]]
       \/ \E sh \in LHShapes :
            /\ A_i_j \in Sparse(sh[1], sh[2], 1)
            /\ B_i_j \in Sparse(sh[1], sh[2], MaxOnes)
       \/ /\ A_i_j = pritchard_ex[1]
          /\ B_i_j = pritchard_ex[2]
    /\ \E A \in {ShiftPositive(A_i_j)} :
       \E B \in {ShiftPositive(B_i_j)} :
       \E C \in {C_k_l(A, B)} : tab_T = lp_Tableau(C)
    /\ tab_k_b = VecTo([k \in 1..Len(tab_T) |-> k], Len(tab_T))
    /\ kent = Len(tab_T) + 1
    /\ p_i = Idle /\ q_j = Idle /\ val1 = Idle /\ val2 = Idle
    /\ lh_npiv = 0
    /\ lh_seen = << <<tab_k_b, kent>> >>
    /\ lh_tied = FALSE
    /\ lh_pc = "loop"

\* one pass through "while True:" of lemke_howson_solve; the pass that breaks
\* also runs the statements after the loop
LHPivot ==
    /\ lh_pc = "loop" /\ lh_npiv < MaxPiv
    /\ lh_npiv' = lh_npiv + 1
    /\ \E ratios \in {Ratios(tab_T, kent)} :
      \E rows \in {lp_Tableau_determine_departing(ratios)} :
         IF rows = {}
         THEN \* no positive entry in the entering column: unbounded ray
              /\ lh_pc' = "error"
              /\ UNCHANGED <<tab_T, tab_k_b, kent, p_i, q_j, val1, val2, lh_seen, lh_tied>>
         ELSE \E b \in rows :
              \E kdep \in {tab_k_b[b]} :
              \E prow \in {PivotRow(tab_T, kent, b)} :
              \E T \in {Eliminate(tab_T, kent, b, prow)} :
              \E kb \in {Swap(tab_k_b, b, kent)} :
                 /\ tab_T' = T
                 /\ tab_k_b' = kb
                 /\ lh_tied' = (lh_tied \/ Cardinality(rows) > 1)
                 /\ IF LHBreak(kent, kdep, kb)
                    THEN \E sol \in {lp_Tableau_solution(T, kb)} :
                         \E pq \in {Recover(sol, Len(A_i_j))} :
                            /\ p_i' = pq[1]
                            /\ q_j' = pq[2]
                            /\ val1' = GameValue(SubSeq(sol, Len(A_i_j) + 1, Len(sol)),
                                                 A_i_j)
                            /\ val2' = GameValue(SubSeq(sol, 1, Len(A_i_j)), B_i_j)
                            /\ lh_pc' = "done"
                            /\ UNCHANGED <<kent, lh_seen>>
                    ELSE /\ kent' = complements(kdep, Len(kb))
                         /\ lh_seen' = Append(lh_seen, <<kb, kent'>>)
                         /\ UNCHANGED <<p_i, q_j, val1, val2, lh_pc>>
    /\ UNCHANGED <<A_i_j, B_i_j, notLH>>

NextLH == LHPivot

SpecLH == InitLH /\ [][NextLH]_vars

\* for every pair (w_k, z_k) exactly one of the two is basic
FullyComplementary(kb) ==
    \A k \in Idx(kb) :
        (\E b \in Idx(kb) : kb[b] = k) # (\E b \in Idx(kb) : kb[b] = Len(kb) + k)

\* no (basis, entering variable) pair occurs twice in the run
NoRepeat(h) == \A i, j \in Idx(h) : i < j => h[i] # h[j]

----------------------------------------------------------------------------
(* LCP and the symbolic Tableau of et01: z >= 0, w = M z + q >= 0, z.w = 0. *)
(* Variables are numbered w_k = k (1..n), z_k = n + k, z_0 = 2n + 1.  The   *)
(* sympy expression base[var] is the pair <<constant, coefficients>> with   *)
(* one coefficient per variable; base[var] = None for a nonbasic variable.  *)

\* Tableau(wks, zks, -np.block([M_k_k, ones]), q_k):
\* base[w_k] = q_k + sum_j M[k, j] z_j + z_0
Tableau(M, q) ==
    LET n == Len(q)
    IN  VecTo([var \in 1..(2 * n + 1) |->
                 IF var <= n
                 THEN <<RInt(q[var]),
                        VecTo([u \in 1..(2 * n + 1) |->
                                 IF u <= n THEN Zero
                                 ELSE IF u = 2 * n + 1 THEN One
                                 ELSE RInt(M[var][u - n])], 2 * n + 1)>>
                 ELSE None], 2 * n + 1)

\* solve(base[var] - var, entering_var)[0] with var and the nonbasic variables
\* set to 0; None when var is not basic or solve() returns no solution
val_entering_var(b, var, ent) ==
    IF b[var] = None THEN None
    ELSE IF b[var][2][ent] = Zero THEN None
    ELSE RNeg(RDiv(b[var][1], b[var][2][ent]))

Vals(b, ent) == VecTo([var \in Idx(b) |-> val_entering_var(b, var, ent)], Len(b))

\* departing_var = None
NoVar == 0

\* Tableau_determine_departing: the variables the loop over the set of keys
\* can return (the order of a set of Symbols is arbitrary): a variable of
\* least positive value, None if no value is positive
Tableau_determine_departing(vals) ==
    LET pos == {var \in Idx(vals) : vals[var] # None /\ RLt(Zero, vals[var])}
    IN  IF pos = {} THEN {NoVar}
        ELSE {var \in pos : \A u \in pos : RLe(vals[var], vals[u])}

\* Tableau_determine_departing_complementary: a variable of largest positive value
Tableau_determine_departing_complementary(vals) ==
    LET pos == {var \in Idx(vals) : vals[var] # None /\ RLt(Zero, vals[var])}
    IN  IF pos = {} THEN {NoVar}
        ELSE {var \in pos : \A u \in pos : RLe(vals[u], vals[var])}

\* expr_entering = solve(base[departing_var] - departing_var, entering_var)[0]
expr_entering(b, ent, dep) ==
    VecTo([t \in 1..2 |->
             IF t = 1 THEN RNeg(RDiv(b[dep][1], b[dep][2][ent]))
             ELSE VecTo([v \in Idx(b) |->
                           IF v = ent THEN Zero
                           ELSE IF v = dep THEN RDiv(One, b[dep][2][ent])
                           ELSE RNeg(RDiv(b[dep][2][v], b[dep][2][ent]))], Len(b))], 2)

\* Tableau_pivot: substitute expr_entering in every expression, add the
\* entering variable to the base and delete the departing one
Tableau_pivot(b, ent, dep, expr) ==
    VecTo([var \in Idx(b) |->
             IF var = dep THEN None
             ELSE IF var = ent THEN expr
             ELSE IF b[var] = None THEN None
             ELSE IF b[var][2][ent] = Zero THEN b[var]
             ELSE <<RAdd(b[var][1], RMul(b[var][2][ent], expr[1])),
                    VecTo([v \in Idx(b) |->
                             IF v = ent THEN Zero
                             ELSE RAdd(b[var][2][v], RMul(b[var][2][ent], expr[2][v]))],
                          Len(b))>>], Len(b))

\* self.nonbasic.remove(entering_var) ; self.nonbasic.append(departing_var)
Remove_nothing(s, x) == s
RECURSIVE Remove(_, _)
Remove(s, x) ==
    IF s = <<>> THEN <<>>
    ELSE IF Head(s) = x THEN Tail(s) ELSE <<Head(s)>> \o Remove(Tail(s), x)

\* Tableau_evaluate(thevar)
Tableau_evaluate(b, thevar) == IF b[thevar] = None THEN Zero ELSE b[thevar][1]

\* _, z_k = tab.output_solution() ; return z_k[:-1]
Tableau_output_solution(b) ==
    LET n == (Len(b) - 1) \div 2
    IN  VecTo([k \in 1..n |-> Tableau_evaluate(b, n + k)], n)

\* complements = {z_k: w_k, w_k: z_k}
lcp_complements_shifted(var, n) ==
    IF var <= n THEN n + (var % n) + 1 ELSE (var % n) + 1
lcp_complements(var, n) == IF var <= n THEN var + n ELSE var - n

\* the instances of cells 4, 5 and 13
kostrava_ex == << <<<<0, 3, 1>>, <<-3, 2, -2>>, <<-1, -2, 2>>>>, <<1, -2, 2>> >>
murty_ex_2_10 == << <<<<1, 0, 0>>, <<2, 1, 0>>, <<2, 2, 1>>>>, <<-8, -12, -14>> >>
murty_ex_2_9 == << <<<<1, 0, 3>>, <<-1, 2, 5>>, <<2, 1, 2>>>>, <<-3, -2, -1>> >>

\* LCP(M_k_k, q_k) followed by the statements of lemke_howson_solve that
\* precede the loop
InitLCP ==
    /\ KnIdle /\ CGIdle /\ MTIdle /\ LHIdle /\ IPIdle
    /\ \/ /\ M_k_k \in [1..2 -> [1..2 -> -1..MaxM]]
          /\ q_k \in [1..2 -> -MaxLcpQ..1]
       \/ \E ex \in {kostrava_ex, murty_ex_2_10, murty_ex_2_9} :
            /\ M_k_k = ex[1]
            /\ q_k = ex[2]
    /\ base = Tableau(M_k_k, q_k)
    /\ nonbasic = VecTo([k \in 1..(Len(q_k) + 1) |-> Len(q_k) + k], Len(q_k) + 1)
    /\ entering_var = 2 * Len(q_k) + 1
    /\ \E vals \in {Vals(base, entering_var)} :
         departing_var \in Tableau_determine_departing_complementary(vals)
    /\ z_k = Idle
    /\ lcp_npiv = 0
    /\ lcp_pc = "loop"

\* one pass through "while True:" of LCP.lemke_howson_solve; the pass that
\* breaks also runs the statements after the loop
LCPPivot ==
    /\ lcp_pc = "loop" /\ lcp_npiv < MaxLcpPiv
    /\ lcp_npiv' = lcp_npiv + 1
    /\ IF departing_var = NoVar
       THEN \* self.base[None] raises KeyError
            /\ lcp_pc' = "error"
            /\ UNCHANGED <<base, nonbasic, entering_var, departing_var, z_k>>
       ELSE \E expr \in {expr_entering(base, entering_var, departing_var)} :
            \E b \in {Tableau_pivot(base, entering_var, departing_var, expr)} :
               /\ base' = b
               /\ nonbasic' = Append(Remove(nonbasic, entering_var), departing_var)
               /\ IF departing_var = Len(base)
                  THEN /\ z_k' = Tableau_output_solution(b)
                       /\ lcp_pc' = "done"
                       /\ UNCHANGED <<entering_var, departing_var>>
                  ELSE \E ent \in {lcp_complements(departing_var, Len(q_k))} :
                       \E vals \in {Vals(b, ent)} :
                          /\ entering_var' = ent
                          /\ departing_var' \in Tableau_determine_departing(vals)
                          /\ UNCHANGED <<z_k, lcp_pc>>
    /\ UNCHANGED <<M_k_k, q_k, notLCP>>

NextLCP == LCPPivot

SpecLCP == InitLCP /\ [][NextLCP]_vars

\* both tableaux with labelled variables: MatrixTableau of lp07.1 and the
\* symbolic Tableau of et01
SpecTableaux == (InitMT \/ InitLCP) /\ [][NextMT \/ NextLCP]_vars

\* w = M z + q
LcpSlack(M, q, z) ==
    VecTo([k \in Idx(q) |->
             RAdd(RSumTo([j \in Idx(z) |-> RMul(RInt(M[k][j]), z[j])], Len(z)), RInt(q[k]))],
          Len(q))

----------------------------------------------------------------------------
(* Entropic optimal transport: the three IPFP methods attached to          *)
(* OTProblem (unnamed/part_000).                                           *)
(*                                                                         *)
(* A float64 value is a rational >= 0 (the residual may be negative), inf  *)
(* or nan.  A float64 result above FloatMax overflows to inf, as np.exp    *)
(* does above 1.8e308; rounding and gradual underflow are outside the      *)
(* model.  The log-domain methods keep u_x, v_y and Phi_x_y as logarithms: *)
(* the model holds exp(-u_x/sigma), exp(-v_y/sigma) and exp(Phi_x_y/sigma) *)
(* exactly, sums and differences of logarithms are exact products and      *)
(* quotients, and only the results of np.exp, and the float64 arithmetic   *)
(* done on them, can overflow.                                             *)

\* IEEE-754 product, quotient and sum of operands that are >= 0, inf or nan
EMul(x, y) ==
    IF x = nan \/ y = nan THEN nan
    ELSE IF x = inf \/ y = inf THEN (IF x = Zero \/ y = Zero THEN nan ELSE inf)
    ELSE RMul(x, y)

EDiv(x, y) ==
    IF x = nan \/ y = nan THEN nan
    ELSE IF x = inf THEN (IF y = inf THEN nan ELSE inf)
    ELSE IF y = inf THEN Zero
    ELSE IF y = Zero THEN (IF x = Zero THEN nan ELSE inf)
    ELSE RDiv(x, y)

EAdd(x, y) ==
    IF x = nan \/ y = nan THEN nan
    ELSE IF x = inf \/ y = inf THEN inf
    ELSE RAdd(x, y)

\* the float64 holding the exact result x
float64(x) == IF isfinite(x) /\ RLt(RInt(FloatMax), x) THEN inf ELSE x

FMul(x, y) == float64(EMul(x, y))
FDiv(x, y) == float64(EDiv(x, y))

\* .sum() and @ : float64 sum of the entries of s
RECURSIVE FSumTo(_, _)
FSumTo(s, n) == IF n = 0 THEN Zero ELSE float64(EAdd(FSumTo(s, n - 1), s[n]))
FSum(s) == FSumTo(s, Len(s))

\* np.max / .max(): nan as soon as one entry is nan
RECURSIVE np_max_to(_, _)
np_max_to(s, n) ==
    IF n = 1 THEN s[1]
    ELSE LET r == np_max_to(s, n - 1)
         IN  IF r = nan \/ s[n] = nan THEN nan
             ELSE IF r = inf \/ s[n] = inf THEN inf
             ELSE RMax(r, s[n])
np_max_first(s) == s[1]
np_max(s) == np_max_to(s, Len(s))

\* x - 1 and abs(x - 1)
Minus1(x) == IF isfinite(x) THEN RSub(x, One) ELSE x
AbsMinus1(x) == IF isfinite(x) THEN RAbs(RSub(x, One)) ELSE x

\* error > tol (False when error is nan)
Gt(x, y) == x # nan /\ (x = inf \/ RLt(y, x))

\* while error > tol and ite < maxite
LoopTest(err, tl, it, mx) == Gt(err, tl) /\ it < mx

\* one pass through the loop body of matrixIPFP, from the B_y of the
\* previous pass; K is np.exp(Phi_a / sigma)
matrixIPFP(Kexact, n, m, B) ==
    LET nbx == Len(n)
        nby == Len(m)
        K == VecTo([x \in 1..nbx |->
                 VecTo([y \in 1..nby |-> float64(Kexact[x][y])], nby)], nbx)
        A == VecTo([x \in 1..nbx |->
                 FDiv(n[x], FSum(VecTo([y \in 1..nby |-> FMul(K[x][y], B[y])], nby)))],
                 nbx)
        KA == VecTo([y \in 1..nby |->
                 FSum(VecTo([x \in 1..nbx |-> FMul(A[x], K[x][y])], nbx))], nby)
        err == np_max(VecTo([y \in 1..nby |->
                 Minus1(FDiv(FMul(KA[y], B[y]), m[y]))], nby))
    IN  [A |-> A, error |-> err,
         B |-> VecTo([y \in 1..nby |-> FDiv(m[y], KA[y])], nby)]

\* the returned coupling of matrixIPFP
matrixIPFP_mu(Kexact, A, B) ==
    VecTo([x \in Idx(A) |->
        VecTo([y \in Idx(B) |-> FMul(FMul(float64(Kexact[x][y]), A[x]), B[y])],
              Len(B))], Len(A))

\* the two-sided residual of the log-domain methods
logdomain_error(ratio) == np_max(VecTo([y \in Idx(ratio) |-> AbsMinus1(ratio[y])], Len(ratio)))

\* one pass through the loop body of logdomainIPFP
logdomainIPFP(K, n, m, B) ==
    LET nbx == Len(n)
        nby == Len(m)
        A == VecTo([x \in 1..nbx |->
                 EDiv(n[x], FSum(VecTo([y \in 1..nby |->
                                    float64(EMul(K[x][y], B[y]))], nby)))], nbx)
        KA == VecTo([y \in 1..nby |->
                 FSum(VecTo([x \in 1..nbx |-> float64(EMul(K[x][y], A[x]))], nbx))],
                 nby)
        ratio == VecTo([y \in 1..nby |->
                 FDiv(FMul(KA[y], float64(B[y])), m[y])], nby)
    IN  [A |-> A, error |-> logdomain_error(ratio),
         B |-> VecTo([y \in 1..nby |-> EDiv(m[y], KA[y])], nby)]

\* one pass through the loop body of logdomainIPFP_with_LSE_trick; Vs and Us
\* are exp(vstar_x / sigma) and exp(ustar_y / sigma)
logdomainIPFP_with_LSE_trick(K, n, m, B) ==
    LET nbx == Len(n)
        nby == Len(m)
        Vs == VecTo([x \in 1..nbx |->
                 np_max(VecTo([y \in 1..nby |-> EMul(K[x][y], B[y])], nby))], nbx)
        A == VecTo([x \in 1..nbx |->
                 EDiv(EDiv(n[x], Vs[x]),
                      FSum(VecTo([y \in 1..nby |->
                          float64(EMul(EDiv(K[x][y], Vs[x]), B[y]))], nby)))], nbx)
        Us == VecTo([y \in 1..nby |->
                 np_max(VecTo([x \in 1..nbx |-> EMul(K[x][y], A[x])], nbx))], nby)
        KA == VecTo([y \in 1..nby |->
                 FSum(VecTo([x \in 1..nbx |->
                     float64(EDiv(EMul(K[x][y], A[x]), Us[y]))], nbx))], nby)
        ratio == VecTo([y \in 1..nby |->
                 FDiv(FMul(KA[y], float64(EMul(Us[y], B[y]))), m[y])], nby)
    IN  [A |-> A, error |-> logdomain_error(ratio),
         B |-> VecTo([y \in 1..nby |-> EDiv(EDiv(m[y], Us[y]), KA[y])], nby)]

\* the returned coupling of the two log-domain methods:
\* np.exp((Phi_x_y - u_x - v_y) / sigma)
logdomain_mu(K, A, B) ==
    VecTo([x \in Idx(A) |->
        VecTo([y \in Idx(B) |-> float64(EMul(EMul(K[x][y], A[x]), B[y]))],
              Len(B))], Len(A))

IPFPMethods == {"matrix IPFP", "log-domain IPFP", "log-domain IPFP with LSE trick"}

LoopBody(method, K, n, m, B) ==
    CASE method = "matrix IPFP" -> matrixIPFP(K, n, m, B)
      [] method = "log-domain IPFP" -> logdomainIPFP(K, n, m, B)
      [] OTHER -> logdomainIPFP_with_LSE_trick(K, n, m, B)

Coupling(method, K, A, B) ==
    IF method = "matrix IPFP" THEN matrixIPFP_mu(K, A, B) ELSE logdomain_mu(K, A, B)

\* the matrices exp(Phi_x_y / sigma): every 2x2 matrix of small entries, and
\* matrices of rank one with entries at the end of the float64 range (Large)
\* and above it (Huge)
Large == RInt(FloatMax)
Huge == RInt(2 * FloatMax)
Kernels ==
    [1..2 -> [1..2 -> {One, RInt(3)}]] \cup
    { <<<<Large, Large>>, <<One, One>>>>,
      <<<<Huge, Huge>>, <<One, One>>>>,
      <<<<Huge, One>>, <<Huge, One>>>>,
      <<<<Huge, Huge>>, <<Huge, Huge>>>> }

\* pairs <<n_x, m_y>> of marginals of equal total mass
Uniform(c) == <<c, c>>
Marginals ==
    { <<Uniform(Rat(1, 2)), Uniform(Rat(1, 2))>>,
      <<Uniform(Rat(1, 2)), <<Rat(1, 4), Rat(3, 4)>> >>,
      <<Uniform(RInt(MaxMass)), Uniform(RInt(MaxMass))>> }

\* the problems <<exp(Phi_x_y / sigma), <<n_x, m_y>> >>: the kernels with the
\* marginals above, and one problem whose second type has three times the
\* mass of the first on both sides and a strong affinity for itself
Skewed == <<Rat(1, 4), Rat(3, 4)>>
Problems ==
    (Kernels \X Marginals) \cup
    { << <<<<One, One>>, <<One, RInt(9)>>>>, <<Skewed, Skewed>> >> }

Tolerances == {Rat(1, 4), Rat(1, 8), Rat(1, 16)}

\* OTProblem(Phi_x_y, n_x, m_y) followed by the statements of the method that
\* precede the loop
InitIPFP ==
    /\ KnIdle /\ CGIdle /\ MTIdle /\ LHIdle /\ LCPIdle
    /\ ot_method \in IPFPMethods
    /\ \E pb \in Problems : K_x_y = pb[1] /\ n_x = pb[2][1] /\ m_y = pb[2][2]
    /\ ip_tol \in Tolerances
    /\ maxite \in 0..MaxIte
    /\ A_x = Idle
    /\ B_y = <<One, One>>
    /\ error = RAdd(ip_tol, One)
    /\ ite = 0
    /\ mu_x_y = Idle
    /\ ip_diag = FALSE
    /\ ip_nloop = 0
    /\ ip_pc = "loop"

\* one pass through the body of "while error > tol and ite < maxite:"
IPIterate ==
    /\ ip_pc = "loop"
    /\ LoopTest(error, ip_tol, ite, maxite)
    /\ \E r \in {LoopBody(ot_method, K_x_y, n_x, m_y, B_y)} :
         /\ A_x' = r.A
         /\ error' = r.error
         /\ B_y' = r.B
    /\ ite' = ite + 1
    /\ ip_nloop' = ip_nloop + 1
    /\ UNCHANGED <<ot_method, K_x_y, n_x, m_y, ip_tol, maxite, mu_x_y, ip_diag,
                   ip_pc, notIP>>

\* the loop test fails: the statements after the loop, up to the return
IPReturn ==
    /\ ip_pc = "loop"
    /\ ~LoopTest(error, ip_tol, ite, maxite)
    /\ IF A_x = Idle
       THEN \* A_x (u_x) was never assigned: NameError
            /\ ip_pc' = "NameError"
            /\ UNCHANGED <<mu_x_y, ip_diag>>
       ELSE /\ mu_x_y' = Coupling(ot_method, K_x_y, A_x, B_y)
            /\ ip_diag' = (ite >= maxite)
            /\ ip_pc' = "done"
    /\ UNCHANGED <<ot_method, K_x_y, n_x, m_y, ip_tol, maxite, A_x, B_y, error, ite,
                   ip_nloop, notIP>>

NextIPFP == IPIterate \/ IPReturn

SpecIPFP == InitIPFP /\ [][NextIPFP]_vars

\* row sums and column sums of a coupling
RowSums(mu) == VecTo([x \in Idx(mu) |-> FSum(mu[x])], Len(mu))
ColSums(mu) ==
    VecTo([y \in Idx(mu[1]) |-> FSum(VecTo([x \in Idx(mu) |-> mu[x][y]], Len(mu)))],
          Len(mu[1]))

\* max |s - t| < bound
ResidualBelow(s, t, bound) ==
    \A i \in Idx(s) : isfinite(s[i]) /\ RLt(RAbs(RSub(s[i], t[i])), bound)

\* the run stopped because its residual met tol
Converged == ip_pc = "done" /\ isfinite(error) /\ RLe(error, ip_tol)

----------------------------------------------------------------------------
(* Claims about the knapsack oracle and the column generation loop.        *)

InitialBasis == Diag(VecTo([i \in Idx(w_i) |-> W \div w_i[i]], Len(w_i)))

\* C3: knapsack(k_i, W) returns an exactly optimal pattern: the returned a*
\* fits the capacity and no pattern that fits has a larger value k.a, for
\* every k (negative entries included), positive weights w and capacity W.
C3_KnapsackOptimal ==
    kn_pc = "done" =>
        /\ kn_a \in Patterns(kn_w, kn_W)
        /\ \A a \in Patterns(kn_w, kn_W) : RLe(Value(kn_k, a), Value(kn_k, kn_a))

\* C2: when the column generation loop has stopped, the prices
\* k = (B^T)^-1 1 of the final basis price no pattern that fits W above 1
\* (the basis is optimal for the LP relaxation over all patterns).
C2_StopIsOptimal ==
    cg_pc = "done" =>
        \A a \in Patterns(w_i, W) : RLe(Value(CGPrices(AB_i_j), a), One)

C10_FeasibilityPreserved ==
    [][/\ (Feasible(B_i_b, x_b, d_i) /\ names_basic' # names_basic)
            => Feasible(B_i_b', x_b', d_i')
       /\ (Feasible(AB_i_j, xB_j, q_i) /\ AB_i_j' # AB_i_j)
            => Feasible(AB_i_j', xB_j', q_i')]_vars

C10_Witness ==
    /\ mt_pc = "run" /\ niter >= 2 /\ Feasible(B_i_b, x_b, d_i)
    /\ \A i \in Idx(d_i) : d_i[i] >= 0
    /\ \E b \in Idx(x_b) : x_b[b] = Zero

\* C1: the pair (p, q) returned by lemke_howson_solve is a Nash equilibrium
\* of the original game: no pure strategy of either player improves that
\* player's payoff by more than tol (is_NashEq returns True).
C1_ReturnsNash == lh_pc = "done" => is_NashEq(A_i_j, B_i_j, p_i, q_j)

C1_Witness ==
    /\ lh_pc = "done" /\ lh_npiv >= 4 /\ p_i # NaN /\ q_j # NaN
    /\ MatMin(A_i_j) < 0
    /\ is_NashEq(A_i_j, B_i_j, p_i, q_j)

\* C6 as stated: for every game the pivot loop makes finitely many pivots
\* (no basis/entering pair repeats, no ray, fewer than MaxPiv pivots) and
\* exits with a fully complementary basis.
C6_AlwaysTerminates ==
    /\ lh_pc # "error"
    /\ NoRepeat(lh_seen)
    /\ lh_pc = "loop" => lh_npiv < MaxPiv
    /\ lh_pc = "done" => FullyComplementary(tab_k_b)

\* C6 amended: the same for every run in which no ratio test is tied.
C6_TerminatesWithoutTies == lh_tied \/ C6_AlwaysTerminates

C6_Witness ==
    /\ lh_pc = "done" /\ ~lh_tied /\ lh_npiv >= 6 /\ FullyComplementary(tab_k_b)

\* C4: whenever LCP.lemke_howson_solve returns, the returned z solves the
\* linear complementarity problem: z >= 0, w = M z + q >= 0 and z_k w_k = 0
\* for every k.
C4_ReturnsSolution ==
    lcp_pc = "done" =>
        \A k \in Idx(z_k) :
            /\ RLe(Zero, z_k[k])
            /\ RLe(Zero, LcpSlack(M_k_k, q_k, z_k)[k])
            /\ RMul(z_k[k], LcpSlack(M_k_k, q_k, z_k)[k]) = Zero

----------------------------------------------------------------------------
(* Claims about the IPFP methods.                                          *)

\* C5: whenever an IPFP method returns because its residual met tol, the
\* returned coupling has every row sum within tol of n_x and every column
\* sum within tol of m_y (strictly).
C5_MarginalsWithinTol ==
    Converged =>
        /\ ResidualBelow(RowSums(mu_x_y), n_x, ip_tol)
        /\ ResidualBelow(ColSums(mu_x_y), m_y, ip_tol)

\* C8: an IPFP method makes at most maxite passes through its loop, the
\* count ite it returns is the number of passes made, and when it returns
\* either the last residual is <= tol or ite has reached maxite.
C8_StopsAtTolOrCap ==
    /\ ip_nloop <= maxite
    /\ ite = ip_nloop
    /\ ip_pc = "done" => \/ isfinite(error) /\ RLe(error, ip_tol)
                         \/ ite >= maxite

----------------------------------------------------------------------------
(* Further claims about lemke_howson_solve.                                *)

\* the entering column has a strictly positive entry in some basic row
HasPositiveEntry == \E b \in Idx(tab_T) : RLt(Zero, tab_T[b][kent])

\* C11: in lemke_howson_solve the ratio test never fails: at every pass of
\* the loop the entering column has a strictly positive entry in some basic
\* row, so a departing variable exists and the run never ends by a ray.
C11_RatioTestNeverFails ==
    /\ lh_pc # "error"
    /\ lh_pc = "loop" => HasPositiveEntry

\* a run that is still pivoting after three ratio tests
C11_Witness == lh_pc = "loop" /\ lh_npiv >= 3 /\ HasPositiveEntry

\* a probability vector: entries >= 0 that sum to 1
IsProbability(v) ==
    /\ v # NaN
    /\ \A i \in Idx(v) : RLe(Zero, v[i])
    /\ RSum(v) = One

\* the structural values x_i, y_j of the final tableau
FinalX == SubSeq(lp_Tableau_solution(tab_T, tab_k_b), 1, Len(A_i_j))
FinalY == SubSeq(lp_Tableau_solution(tab_T, tab_k_b), Len(A_i_j) + 1, Len(tab_T))

\* C12: when lemke_howson_solve returns, the structural values satisfy
\* x >= 0, y >= 0, sum(x) > 0 and sum(y) > 0, and the returned p and q are
\* probability vectors (no division by zero occurred).
C12_ReturnsProbabilities ==
    lh_pc = "done" =>
        /\ \A i \in Idx(FinalX) : RLe(Zero, FinalX[i])
        /\ \A j \in Idx(FinalY) : RLe(Zero, FinalY[j])
        /\ RLt(Zero, RSum(FinalX)) /\ RLt(Zero, RSum(FinalY))
        /\ IsProbability(p_i) /\ IsProbability(q_j)

\* a run that returned a mixed strategy for the row player
C12_Witness ==
    /\ lh_pc = "done" /\ IsProbability(p_i) /\ IsProbability(q_j)
    /\ \E i \in Idx(p_i) : RLt(Zero, p_i[i]) /\ RLt(p_i[i], One)

\* C13: the values returned by lemke_howson_solve are the expected payoffs
\* of the two players at (p, q) in the original, unshifted game:
\* val1 = p'Aq and val2 = p'Bq.
C13_ValuesArePayoffs ==
    lh_pc = "done" =>
        /\ isfinite(val1) /\ isfinite(val2)
        /\ p_i # NaN /\ q_j # NaN
        /\ val1 = Bilinear(p_i, A_i_j, q_j)
        /\ val2 = Bilinear(p_i, B_i_j, q_j)

\* a returned value of a game whose payoffs were shifted, at a mixed strategy
C13_Witness ==
    /\ lh_pc = "done" /\ isfinite(val1) /\ p_i # NaN /\ q_j # NaN
    /\ MatMin(A_i_j) # 1 /\ MatMin(B_i_j) # 1
    /\ \E i \in Idx(p_i) : RLt(Zero, p_i[i]) /\ RLt(p_i[i], One)
    /\ val1 = Bilinear(p_i, A_i_j, q_j)

----------------------------------------------------------------------------
(* Further claims about knapsack.                                          *)

\* C14: the pattern returned by knapsack is feasible: every a_i is a
\* nonnegative integer and sum_i w_i*a_i <= W, whatever the values k_i and
\* the capacity W >= 0.
C14_PatternFeasible ==
    kn_pc = "done" =>
        /\ \A i \in Idx(kn_a) : kn_a[i] \in Nat
        /\ Len(kn_a) = Len(kn_w)
        /\ IDot(kn_a, kn_w) <= kn_W

\* a returned pattern that cuts two different widths and fills the capacity
C14_Witness ==
    /\ kn_pc = "done"
    /\ \E i, j \in Idx(kn_a) : i # j /\ kn_a[i] > 0 /\ kn_a[j] > 0
    /\ \E i \in Idx(kn_k) : RLt(kn_k[i], Zero)
    /\ IDot(kn_a, kn_w) = kn_W

----------------------------------------------------------------------------
(* Further claims about MatrixTableau.solve.  The linear program of the     *)
(* tableau, max c.x subject to B x_B + N x_N = d, x >= 0, is solved here by *)
(* brute force over all bases, independently of the pivoting path.          *)

\* column j and cost j of the tableau, basic columns first
TableauCol(j) == IF j <= Len(c_b) THEN Col(B_i_b, j) ELSE Col(N_i_n, j - Len(c_b))
TableauCost(j) == IF j <= Len(c_b) THEN c_b[j] ELSE c_n[j - Len(c_b)]

\* the choices of nbb columns among the nbb + nbn columns
Bases ==
    {s \in [1..Len(c_b) -> 1..(Len(c_b) + Len(c_n))] :
        \A i, j \in 1..Len(c_b) : i < j => s[i] < s[j]}
BasisMatrix(s) ==
    VecTo([i \in 1..Len(c_b) |-> VecTo([b \in 1..Len(c_b) |-> TableauCol(s[b])[i]], Len(c_b))],
          Len(c_b))
BasisValue(s, x) ==
    RSumTo([b \in 1..Len(c_b) |-> RMul(RInt(TableauCost(s[b])), x[b])], Len(c_b))

\* the vertices of the feasible set
FeasibleBases ==
    {s \in Bases : /\ ~Singular(BasisMatrix(s))
                   /\ \A b \in 1..Len(c_b) : RLe(Zero, Solve(BasisMatrix(s), d_i)[b])}

\* an improving ray: a direction x_j = 1, x_s = -z >= 0 along which c.x grows
LPUnbounded ==
    /\ \E s \in Bases : \E M \in {BasisMatrix(s)} :
          /\ ~Singular(M)
          /\ \E j \in 1..(Len(c_b) + Len(c_n)) :
                /\ \A b \in 1..Len(c_b) : s[b] # j
                /\ \E z \in {Solve(M, TableauCol(j))} :
                      /\ \A b \in 1..Len(c_b) : RLe(z[b], Zero)
                      /\ RLt(BasisValue(s, z), RInt(TableauCost(j)))
    /\ FeasibleBases # {}

\* x_b.dot(c_b)
Objective == RSumTo([b \in Idx(x_b) |-> RMul(RInt(c_b[b]), x_b[b])], Len(x_b))

\* the tableau was built on B = I, so that the starting x_B is d
StartedFeasible == \A i \in Idx(d_i) : d_i[i] >= 0

\* C15: started from a basis with x_B = B^-1 d >= 0, solve returns only at an
\* optimal vertex: no nonbasic variable has a negative reduced cost, and
\* x_b.c_b is the maximum of c.x subject to B x_B + N x_N = d, x >= 0.
C15_ReturnsOptimalVertex ==
    (mt_pc = "done" /\ StartedFeasible) =>
        /\ \A t_n \in {ReducedCosts(B_i_b, N_i_n, c_b, c_n)} :
              \A n \in Idx(c_n) : RLe(Zero, t_n[n])
        /\ Feasible(B_i_b, x_b, d_i)
        /\ ~LPUnbounded
        /\ \A obj \in {Objective} : \A s \in Bases : \A M \in {BasisMatrix(s)} :
              ~Singular(M) =>
                 \A x \in {Solve(M, d_i)} :
                    (\A b \in Idx(x) : RLe(Zero, x[b])) => RLe(BasisValue(s, x), obj)

\* a return after two pivots at a vertex of positive value
C15_Witness ==
    /\ mt_pc = "done" /\ StartedFeasible /\ niter >= 3
    /\ RLt(Zero, Objective)
    /\ \E s \in FeasibleBases : RLt(BasisValue(s, Solve(BasisMatrix(s), d_i)), Objective)

----------------------------------------------------------------------------
(* Further claims about the IPFP methods.                                  *)

\* the whole run of a method on the problem and the parameters of the state:
\* the loop of the method from the values A, B, err, it on
RECURSIVE IPRun(_, _, _, _, _)
IPRun(method, A, B, err, it) ==
    IF LoopTest(err, ip_tol, it, maxite)
    THEN LET r == LoopBody(method, K_x_y, n_x, m_y, B)
         IN  IPRun(method, r.A, r.B, r.error, it + 1)
    ELSE [A |-> A, B |-> B, error |-> err, ite |-> it]
IPResult(method) == IPRun(method, Idle, <<One, One>>, RAdd(ip_tol, One), 0)

\* the method converges on the problem of the state
IPConverges(method) ==
    LET r == IPResult(method)
    IN  r.A # Idle /\ isfinite(r.error) /\ RLe(r.error, ip_tol)
IPCoupling(method) ==
    LET r == IPResult(method) IN Coupling(method, K_x_y, r.A, r.B)

\* sigma is moderate: no entry of exp(Phi_x_y / sigma) is near the end of
\* the float64 range
ModerateSigma == \A x, y \in 1..2 : RLe(K_x_y[x][y], RInt(9))

\* |s - t| <= 1e-6 (q \div p < 10^6 is p/q > 1e-6 for p, q > 0)
Within1e6(s, t) ==
    /\ isfinite(s) /\ isfinite(t)
    /\ LET d == RAbs(RSub(s, t))
       IN  d[1] = 0 \/ d[2] \div d[1] >= 1000000

\* every entry equal up to 1e-6, as the Frobenius norm up to 1e-6 requires
CouplingsAgree(mu, nu) ==
    \A x \in Idx(mu) : \A y \in Idx(mu[x]) : Within1e6(mu[x][y], nu[x][y])

\* C16: on the same problem with a moderate sigma, the same tol and the same
\* maxite, when the three methods all converge, the couplings they return
\* are equal up to 1e-6.
C16_VariantsAgree ==
    (/\ ip_pc = "done" /\ ModerateSigma
     /\ \A method \in IPFPMethods : IPConverges(method)) =>
        \A method \in IPFPMethods : CouplingsAgree(mu_x_y, IPCoupling(method))

\* C17: in each IPFP method the 'maximum number of iterations reached'
\* diagnostic is printed exactly when the run ended by exhausting maxite
\* without the residual meeting tol; a run that stops because the residual
\* met tol prints nothing; in both cases the method returns its result
\* and raises no exception.
C17_DiagnosticIffCapExhausted ==
    /\ ip_pc # "NameError"
    /\ ip_pc = "done" =>
          /\ mu_x_y # Idle
          /\ ip_diag <=> (ite >= maxite /\ ~(isfinite(error) /\ RLe(error, ip_tol)))

\* z_b = solve(B_i_b, N_i_n[:, nent]) has no entry > 0 for the entering nent
NoPositiveRow ==
    LET nent == determine_entering(B_i_b, N_i_n, c_b, c_n, names_nonbasic)
    IN  /\ nent # 0
        /\ \A b \in Idx(x_b) : RLe(Solve(B_i_b, Col(N_i_n, nent))[b], Zero)

\* C18: when the entering column has no row with z_b > 0, determine_departing
\* ends in an error, an outcome distinct from a return, and yields no
\* (row, ratio) pair; solve passes the error on, and B, N, x_b, c_b, c_n and
\* the names are what they were before the call of determine_departing.  No
\* other pass of solve ends in an error.
C18_UnboundedIsAnError ==
    [][mt_pc = "run" =>
          /\ (mt_pc' = "error") <=> NoPositiveRow
          /\ NoPositiveRow =>
                UNCHANGED <<B_i_b, N_i_n, x_b, c_b, c_n, names_basic, names_nonbasic>>]_vars

\* an error raised after a pivot, at a basis that is not the initial one
C18_Witness ==
    /\ mt_pc = "error" /\ niter >= 2 /\ B_i_b # Eye(Len(B_i_b))
    /\ NoPositiveRow

----------------------------------------------------------------------------
(* The complementary pivoting path of lemke_howson_solve.                  *)

Basic(kb, k) == \E b \in Idx(kb) : kb[b] = k

\* a pass of the loop has pivoted: tab.update(kent, kdep) was run
Pivoted == lh_pc = "loop" /\ lh_npiv' = lh_npiv + 1 /\ lh_pc' # "error"

\* the variable that the pivot took out of the basis
Departed == CHOOSE k \in 1..(2 * Len(tab_k_b)) : Basic(tab_k_b, k) /\ ~Basic(tab_k_b', k)

\* C19: after every pivot of lemke_howson_solve the exit test of the loop
\* (the complement of the variable that entered is not basic and the
\* complement of the variable that departed is basic) is true if and only
\* if the basis is fully complementary; the loop exits exactly then.
C19_ExitIffComplementary ==
    [][Pivoted =>
          /\ LHBreak(kent, Departed, tab_k_b') <=> FullyComplementary(tab_k_b')
          /\ (lh_pc' = "done") <=> FullyComplementary(tab_k_b')]_vars

\* an exit at a complementary basis after pivots that did not exit
C19_Witness ==
    /\ lh_pc = "done" /\ lh_npiv >= 4 /\ FullyComplementary(tab_k_b)
    /\ \E b \in Idx(tab_k_b) : tab_k_b[b] > Len(tab_k_b)

\* the pairs (w_k, z_k) with both members basic, and with neither
BothBasic(kb) == {k \in Idx(kb) : Basic(kb, k) /\ Basic(kb, Len(kb) + k)}
NoneBasic(kb) == {k \in Idx(kb) : ~Basic(kb, k) /\ ~Basic(kb, Len(kb) + k)}

AlmostComplementary(kb) ==
    /\ Cardinality(BothBasic(kb)) = 1
    /\ Cardinality(NoneBasic(kb)) = 1

AllSlack(kb) == \A b \in Idx(kb) : kb[b] <= Len(kb)

\* C20: on the path of lemke_howson_solve every basis reached by a pivot
\* before the exit is almost complementary: exactly one pair (w_k, z_k) has
\* both members basic, exactly one pair has neither, and every other pair
\* has exactly one; the basis at the exit is fully complementary and is not
\* the initial basis of all the slacks w_k.
C20_PathAlmostComplementary ==
    /\ (lh_pc = "loop" /\ lh_npiv >= 1) => AlmostComplementary(tab_k_b)
    /\ lh_pc = "done" => FullyComplementary(tab_k_b) /\ ~AllSlack(tab_k_b)

\* a basis on the path, three pivots in: the pair of z_1, which entered
\* first, is doubled and a pair of the second player is missing
C20_Witness ==
    /\ lh_pc = "loop" /\ lh_npiv >= 3
    /\ AlmostComplementary(tab_k_b)
    /\ BothBasic(tab_k_b) = {1}
    /\ \E k \in NoneBasic(tab_k_b) : k > Len(A_i_j)

----------------------------------------------------------------------------
(* Further claims about the ratio test and the pivots of lp07.1 and ot05.   *)

\* (bdep, epsilon) is the answer of the ratio test on x and z: epsilon is the
\* least x[b] / z[b] over the rows with z[b] > 0, row bdep attains it, and no
\* row of lower index does
IsFirstMinRatio(x, z, bdep, epsilon) ==
    /\ RLt(Zero, z[bdep])
    /\ epsilon = RDiv(x[bdep], z[bdep])
    /\ \A b \in Idx(z) :
          RLt(Zero, z[b]) =>
             /\ RLe(epsilon, RDiv(x[b], z[b]))
             /\ b < bdep => RLt(epsilon, RDiv(x[b], z[b]))

\* the column that a pivot replaced in a basis matrix
ChangedCol(M, Mnew) == CHOOSE b \in Idx(M) : Col(M, b) # Col(Mnew, b)

\* C21: determine_departing returns (bdep, epsilon) where epsilon is the
\* least x_b[b] / z_b over the rows with z_b > 0, z = B^-1 * entering column,
\* and bdep is the lowest-indexed row attaining it; the ratio test written
\* inline in the column generation loop does the same.
C21_DepartingIsFirstMinRatio ==
    [][/\ names_basic' # names_basic =>
             \E bdep \in {CHOOSE b \in Idx(names_basic) : names_basic'[b] # names_basic[b]} :
                IsFirstMinRatio(x_b, Solve(B_i_b, Col(B_i_b', bdep)), bdep, x_b'[bdep])
       /\ AB_i_j' # AB_i_j =>
             \E jexit \in {ChangedCol(AB_i_j, AB_i_j')} :
                IsFirstMinRatio(xB_j, Solve(AB_i_j, Col(AB_i_j', jexit)), jexit, xB_j'[jexit])]_vars

\* the first pivot of solve was decided among tied rows: with B = I the
\* ratios were d[b] / N[b, nent], two rows shared the least one and the
\* row of lower index departed
C21_Witness ==
    /\ mt_pc = "run" /\ niter = 1
    /\ \E bdep, b \in Idx(names_basic) :
          /\ names_basic[bdep][1] = "x" /\ bdep < b
          /\ B_i_b[bdep][bdep] > 0 /\ B_i_b[b][bdep] > 0
          /\ d_i[bdep] > 0
          /\ Rat(d_i[bdep], B_i_b[bdep][bdep]) = Rat(d_i[b], B_i_b[b][bdep])

\* the entries of a sequence, and a sequence without a repeated entry
Range(s) == {s[i] : i \in Idx(s)}
NoDuplicate(s) == \A i, j \in Idx(s) : i # j => s[i] # s[j]

\* the labels of MatrixTableau.__init__: s_0.. for the basis, x_0.. outside
InitialNames ==
    {<<"s", b - 1>> : b \in 1..Len(d_i)} \cup {<<"x", n - 1>> : n \in 1..Len(c_n)}

\* the keys of the dict base of the symbolic Tableau
BaseKeys == {var \in Idx(base) : base[var] # None}

\* C22: after any sequence of pivots of MatrixTableau.update and of
\* Tableau.pivot the basic labels and the nonbasic labels each hold no
\* duplicate, are disjoint, their union is the initial set of variables and
\* there are as many basic labels as constraint rows.
C22_BasisPartition ==
    /\ mt_pc # "idle" =>
          /\ NoDuplicate(names_basic) /\ NoDuplicate(names_nonbasic)
          /\ Range(names_basic) \cap Range(names_nonbasic) = {}
          /\ Range(names_basic) \cup Range(names_nonbasic) = InitialNames
          /\ Len(names_basic) = Len(d_i)
    /\ lcp_pc # "idle" =>
          /\ NoDuplicate(nonbasic)
          /\ BaseKeys \cap Range(nonbasic) = {}
          /\ BaseKeys \cup Range(nonbasic) = 1..(2 * Len(q_k) + 1)
          /\ Cardinality(BaseKeys) = Len(q_k)

\* a symbolic tableau after three pivots, with z and w variables in the base
C22_Witness ==
    /\ lcp_pc = "loop" /\ lcp_npiv >= 3
    /\ \E var \in BaseKeys : var <= Len(q_k)
    /\ \E var \in BaseKeys : var > Len(q_k)
    /\ nonbasic # VecTo([k \in 1..(Len(q_k) + 1) |-> Len(q_k) + k], Len(q_k) + 1)

\* s and t differ at position i only, where t holds v
OnlyAt(s, t, i, v) ==
    /\ Len(t) = Len(s)
    /\ \A j \in Idx(s) : t[j] = (IF j = i THEN v ELSE s[j])

\* C23: MatrixTableau.update(bdep, nent, epsilon) exchanges column bdep of B
\* with column nent of N, c_b[bdep] with c_n[nent] and names_basic[bdep]
\* with names_nonbasic[nent], and leaves every other column of B and N,
\* every other coefficient and name, and the right-hand side d as they were.
C23_UpdateExchanges ==
    [][names_basic' # names_basic =>
          \E bdep \in Idx(names_basic) : \E nent \in Idx(names_nonbasic) :
             /\ OnlyAt(names_basic, names_basic', bdep, names_nonbasic[nent])
             /\ OnlyAt(names_nonbasic, names_nonbasic', nent, names_basic[bdep])
             /\ OnlyAt(c_b, c_b', bdep, c_n[nent])
             /\ OnlyAt(c_n, c_n', nent, c_b[bdep])
             /\ \A b \in Idx(c_b) :
                   Col(B_i_b', b) = (IF b = bdep THEN Col(N_i_n, nent) ELSE Col(B_i_b, b))
             /\ \A n \in Idx(c_n) :
                   Col(N_i_n', n) = (IF n = nent THEN Col(B_i_b, bdep) ELSE Col(N_i_n, n))
             /\ d_i' = d_i]_vars

\* after two updates: a slack left the basis with its unit column and its
\* zero coefficient, and a variable x with a positive coefficient is basic
C23_Witness ==
    /\ mt_pc = "run" /\ niter >= 2
    /\ \E n \in Idx(names_nonbasic) :
          /\ names_nonbasic[n][1] = "s" /\ c_n[n] = 0
          /\ Col(N_i_n, n) = Col(Eye(Len(d_i)), names_nonbasic[n][2] + 1)
    /\ \E b \in Idx(names_basic) : names_basic[b][1] = "x" /\ c_b[b] > 0
    /\ \E b \in Idx(names_basic) : names_basic[b][1] = "s"

----------------------------------------------------------------------------
(* Further claims about the residuals and the exponentials of the IPFP     *)
(* methods.                                                                *)

\* max_y |(K^T A)_y * B_y / m_y - 1| in float64
TwoSidedResidual(Kexact, A, B, m) ==
    LET KA == VecTo([y \in Idx(m) |->
                 FSum(VecTo([x \in Idx(A) |-> FMul(A[x], float64(Kexact[x][y]))], Len(A)))],
                 Len(m))
    IN  logdomain_error(VecTo([y \in Idx(m) |-> FDiv(FMul(KA[y], B[y]), m[y])], Len(m)))

\* C24: matrixIPFP stops by convergence only when the two-sided residual is
\* within tolerance: whenever a pass of its loop is the last one with fewer
\* than maxite passes made, max_y |(K^T A)_y * B_y / m_y - 1| < tol holds
\* for the A and the B that the pass used to compute its residual.
C24_MatrixStopsWithinTol ==
    [][(/\ ot_method = "matrix IPFP" /\ ite' = ite + 1
        /\ ~LoopTest(error', ip_tol, ite', maxite) /\ ite' < maxite) =>
          \E e2 \in {TwoSidedResidual(K_x_y, A_x', B_y, m_y)} :
             isfinite(e2) /\ RLt(e2, ip_tol)]_vars

\* the values exp(arg) of the three exponentials of one pass of
\* logdomainIPFP_with_LSE_trick, before they are stored as float64:
\* [1][x][y] = exp((Phi_x_y - vstar_x - v_y) / sigma),
\* [2][x][y] = exp((Phi_x_y - u_x - ustar_y) / sigma),
\* [3][y]    = exp((ustar_y - v_y) / sigma);   arg <= 0 is exp(arg) <= 1
LSE_exponentials(K, n, m, B) ==
    LET nbx == Len(n)
        nby == Len(m)
        Vs == VecTo([x \in 1..nbx |->
                 np_max(VecTo([y \in 1..nby |-> EMul(K[x][y], B[y])], nby))], nbx)
        e1 == VecTo([x \in 1..nbx |->
                 VecTo([y \in 1..nby |-> EMul(EDiv(K[x][y], Vs[x]), B[y])], nby)], nbx)
        A == VecTo([x \in 1..nbx |->
                 EDiv(EDiv(n[x], Vs[x]),
                      FSum(VecTo([y \in 1..nby |-> float64(e1[x][y])], nby)))], nbx)
        Us == VecTo([y \in 1..nby |->
                 np_max(VecTo([x \in 1..nbx |-> EMul(K[x][y], A[x])], nbx))], nby)
        e2 == VecTo([x \in 1..nbx |->
                 VecTo([y \in 1..nby |-> EDiv(EMul(K[x][y], A[x]), Us[y])], nby)], nbx)
        e3 == VecTo([y \in 1..nby |-> EMul(Us[y], B[y])], nby)
    IN  <<e1, e2, e3>>

\* exp(arg) <= 1, that is arg <= 0
NonPositiveArg(v) == isfinite(v) /\ RLe(v, One)

\* a pass of the loop of logdomainIPFP_with_LSE_trick is about to run
LSEPass ==
    /\ ot_method = "log-domain IPFP with LSE trick" /\ ip_pc = "loop"
    /\ LoopTest(error, ip_tol, ite, maxite)

\* arguments of the first two exponentials: <= 0 everywhere, 0 for one y in
\* each row x of the first and for one x in each column y of the second
StabilisedArgs(e) ==
    /\ \A x, y \in 1..2 : NonPositiveArg(e[1][x][y]) /\ NonPositiveArg(e[2][x][y])
    /\ \A x \in 1..2 : \E y \in 1..2 : e[1][x][y] = One
    /\ \A y \in 1..2 : \E x \in 1..2 : e[2][x][y] = One

\* C25 as stated: in logdomainIPFP_with_LSE_trick every value passed to an
\* exponential inside the loop is <= 0: Phi_xy - vstar_x - v_y <= 0 and
\* Phi_xy - u_x - ustar_y <= 0, with equality for one y per x and one x per
\* y, and likewise the argument (ustar_y - v_y) / sigma of the residual.
C25_AllArgsNonPositive ==
    LSEPass =>
       \A e \in {LSE_exponentials(K_x_y, n_x, m_y, B_y)} :
          /\ StabilisedArgs(e)
          /\ \A y \in 1..2 : NonPositiveArg(e[3][y])

\* C25 amended: the arguments Phi_xy - vstar_x - v_y and Phi_xy - u_x -
\* ustar_y are <= 0 in every pass, with equality for one y per x and one x
\* per y; the argument (ustar_y - v_y) / sigma of the exponential in the
\* residual is <= 0 when no n_x exceeds 1.
C25_ArgsNonPositive ==
    LSEPass =>
       \A e \in {LSE_exponentials(K_x_y, n_x, m_y, B_y)} :
          /\ StabilisedArgs(e)
          /\ (\A x \in 1..2 : RLe(n_x[x], One)) => \A y \in 1..2 : NonPositiveArg(e[3][y])

\* a pass after the first, on a problem whose exp(Phi / sigma) is beyond the
\* float64 range, with some argument strictly negative
C25_Witness ==
    /\ LSEPass /\ ite >= 1
    /\ \E x, y \in 1..2 : RLt(RInt(FloatMax), K_x_y[x][y])
    /\ \E e \in {LSE_exponentials(K_x_y, n_x, m_y, B_y)} :
          /\ StabilisedArgs(e)
          /\ \E x, y \in 1..2 : RLt(e[1][x][y], One)
          /\ \A y \in 1..2 : RLt(e[3][y], One)

----------------------------------------------------------------------------
(* Further claims about the tables of knapsack.                            *)

\* the best value of a pattern of the items 1..i within the capacity v
BestValue(k, w, i, v) ==
    LET vals == {Value(SubSeq(k, 1, i), a) : a \in Patterns(SubSeq(w, 1, i), v)}
    IN  CHOOSE best \in vals : \A other \in vals : RLe(other, best)

\* C26: after knapsack has filled its table, for every item i and every
\* capacity v in 0..W, F[i][v] is the best value of a pattern of the items
\* up to i within the capacity v, also when some k_j are negative.
C26_TableIsBestValue ==
    kn_pc = "done" =>
        \A i \in Idx(kn_k) : \A v \in 0..kn_W :
            At(kn_F[i], v) = BestValue(kn_k, kn_w, i, v)

\* a table for values of both signs, the first one negative: the row of the
\* first item is 0 and the last row is positive at the full capacity
C26_Witness ==
    /\ kn_pc = "done" /\ kn_W >= 3
    /\ RLt(kn_k[1], Zero) /\ At(kn_F[1], kn_W) = Zero
    /\ RLt(Zero, At(kn_F[Len(kn_k)], kn_W))
    /\ At(kn_F[Len(kn_k)], kn_W) = BestValue(kn_k, kn_w, Len(kn_k), kn_W)

\* C27: A[i][v] is a multiplicity of item i that achieves F[i][v]: for every
\* item after the first and every v, 0 <= A[i][v] <= floor(v / w_i) and
\* k_i * A[i][v] + F[i-1][v - A[i][v] * w_i] = F[i][v]; for the first item
\* k_0 * A[0][v] = F[0][v]; hence the backtracked pattern has the value
\* F[last][W].
C27_MultiplicityAchievesValue ==
    kn_pc = "done" =>
        /\ \A i \in 2..Len(kn_k) : \A v \in 0..kn_W :
              \E a \in {At(kn_A[i], v)} :
                 /\ 0 <= a /\ a <= v \div kn_w[i]
                 /\ RAdd(RMul(kn_k[i], RInt(a)), At(kn_F[i - 1], v - a * kn_w[i]))
                       = At(kn_F[i], v)
        /\ \A v \in 0..kn_W :
              RMul(kn_k[1], RInt(At(kn_A[1], v))) = At(kn_F[1], v)
        /\ Value(kn_k, kn_a) = At(kn_F[Len(kn_k)], kn_W)

----------------------------------------------------------------------------
(* Further claims about LCP.lemke_howson_solve and the symbolic Tableau.   *)

\* the artificial variable z_0
z_0 == 2 * Len(q_k) + 1

\* no pair (w_k, z_k) has both members in the base
NoPairBothBasic ==
    \A k \in Idx(q_k) : ~(k \in BaseKeys /\ Len(q_k) + k \in BaseKeys)

\* C28: throughout a run of LCP.lemke_howson_solve, in every basis reached
\* after the first pivot no pair (z_k, w_k) has both members basic; the loop
\* goes on while z_0 is basic and stops at the first pivot in which z_0
\* departs, and then every pair has at most one basic member and z_0 is
\* nonbasic.
C28_NoPairBothBasic ==
    /\ lcp_npiv >= 1 => NoPairBothBasic
    /\ (lcp_pc = "loop" /\ lcp_npiv >= 1) => z_0 \in BaseKeys
    /\ lcp_pc = "done" => z_0 \notin BaseKeys /\ departing_var = z_0

\* a run that stopped at its fourth pivot or later, with some z_k basic
C28_Witness ==
    /\ lcp_pc = "done" /\ lcp_npiv >= 4
    /\ NoPairBothBasic /\ z_0 \notin BaseKeys
    /\ \E k \in Idx(q_k) : Len(q_k) + k \in BaseKeys
    /\ \E k \in Idx(q_k) : k \in BaseKeys


\* every basic variable evaluates to a value >= 0, the nonbasic ones at 0
LcpFeasible(b) ==
    \A var \in Idx(b) : b[var] # None => RLe(Zero, Tableau_evaluate(b, var))

\* some basic variable equals 0
LcpDegenerate(b) ==
    \E var \in Idx(b) : b[var] # None /\ Tableau_evaluate(b, var) = Zero

\* C29: in the symbolic Tableau a pivot whose departing variable was chosen
\* by Tableau.determine_departing keeps the vertex feasible: if every basic
\* variable is >= 0 before the pivot, every basic variable is >= 0 after it,
\* also when some basic variable equals 0 before the pivot.
C29_PivotKeepsFeasible ==
    [][(/\ lcp_pc = "loop" /\ lcp_npiv >= 1 /\ departing_var # NoVar
        /\ LcpFeasible(base))
       => LcpFeasible(base')]_vars

----------------------------------------------------------------------------
(* Further claim about the column-generation loop.                         *)

\* the ratio test of the pass that would run next has a departing column
\* and a step epsilon >= 0
RatioTestDefined(x, z) ==
    /\ RatioKeys(z) # {}
    /\ \E jexit \in {ArgMinFirst(x, z)} : RLe(Zero, RDiv(x[jexit], z[jexit]))

\* C30: in the column-generation loop the ratio test is never empty:
\* whenever the pricing step finds an improving pattern (k.a* > 1) the
\* vector z = B^-1 a* has a strictly positive component, so a departing
\* column and a step epsilon >= 0 exist, and the loop never fails for lack
\* of a departing row.
C30_RatioTestNeverEmpty ==
    /\ cg_pc # "error"
    /\ (cg_pc = "loop" /\ cont) =>
         /\ ~Singular(AB_i_j)
         /\ \A k \in {CGPrices(AB_i_j)} :
            \A a \in {knapsack(k, w_i, W)} :
               ~NoImproving(k, a) => RatioTestDefined(xB_j, Solve(AB_i_j, a))

\* after a pivot the pricing step finds a further improving pattern whose
\* z has a component that the ratio test leaves out
C30_Witness ==
    /\ cg_pc = "loop" /\ cont /\ iter >= 1
    /\ ~Singular(AB_i_j)
    /\ \E k \in {CGPrices(AB_i_j)} :
       \E a \in {knapsack(k, w_i, W)} :
          /\ ~NoImproving(k, a)
          /\ \E z \in {Solve(AB_i_j, a)} :
                /\ RatioKeys(z) # {}
                /\ RatioKeys(z) # Idx(z)

=============================================================================
